---- MODULE Spec2Model ----
(***************************************************************************)
(* Token cache and refresh policy of the ProjectX API wrapper              *)
(* (src/auth.py, class ProjectXAuth; src/projectx_api.py carries the same  *)
(* _load_cached_token / _save_token / login code in class ProjectXAPI).    *)
(*                                                                         *)
(* Several instances (processes) share one cache file                      *)
(* ~/.projectx/token.json.  Every instance is single-threaded; a call is   *)
(* modelled by the position `pc` of the instance inside login() and        *)
(* _save_token(), one step per system call or network round trip, so that  *)
(* the steps of different instances interleave on the shared file.         *)
(* An endpoint operation of ProjectXAPI is a call of _make_request: the    *)
(* token check, login() when the check asks for it, then one API request.  *)
(*                                                                         *)
(* Time is counted in hours.  The clock advances only between calls: a     *)
(* call lasts far less than one clock step.                                *)
(*                                                                         *)
(* Spec runs the calls of the instances one after the other and lets the   *)
(* cache file be damaged from outside between two calls.  SpecConc         *)
(* interleaves the steps of the calls of the instances on the shared file. *)
(* SpecApi runs the calls one after the other, endpoint operations         *)
(* included.                                                               *)
(***************************************************************************)
EXTENDS Integers, Sequences, FiniteSets, TLC

\* ---------------------------------------------------------------- bounds
MaxTime == 36
TickStep == 12
MaxTokens == 2

\* ------------------------------------------------------------- constants
\* timedelta(hours=24)
TokenLifetimeHours == 24
\* hours in the date part of an ISO-8601 text
HoursPerDay == 24
\* Python's None, for self.token and self.token_expiry
None == -1

Inst == {"p1", "p2"}

\* The username, API key and base URL each instance was constructed with:
\* the instances belong to different users.
Credential(i) == IF i = "p1" THEN "alice" ELSE "bob"

\* Classes of users that may read a file (the read bits of its mode).
OwnerOnly == {"owner"}
\* open(..., 'w') creates with mode 0o666 masked by the process umask.
CreateMode == {"owner", "group", "other"}
\* umask 0o022 clears no read bit, umask 0o077 clears group and other.
Umasks == {{}, {"group", "other"}}

VARIABLES now, token, token_expiry, pc, op, stats, last, sent,
          dirExists, file, issued

vars == <<now, token, token_expiry, pc, op, stats, last, sent,
          dirExists, file, issued>>

\* ------------------------------------------------------------ conversions
\* A format that writes the date and no time of day.
isoformat_date_only(t) == <<t \div HoursPerDay, 0>>

\* datetime.isoformat(): the text "<date>T<time>", here <<days, hour of day>>.
isoformat(t) == <<t \div HoursPerDay, t % HoursPerDay>>

\* What datetime.fromisoformat accepts: a text with a date and a time part.
IsIsoText(s) == Len(s) = 2

\* A parse that keeps the date and drops the time of day.
fromisoformat_date_only(s) == s[1] * HoursPerDay

\* datetime.fromisoformat(s) of an accepted text.
fromisoformat(s) == s[1] * HoursPerDay + s[2]

\* A dump that stores the time of issue in place of the expiry.
json_dump_issue_time(tok, expiry) ==
    [kind |-> "object", token |-> tok, expiry |-> isoformat(expiry - TokenLifetimeHours)]

\* The text json.dump writes for {'token': token, 'expiry': expiry.isoformat()}.
json_dump(tok, expiry) ==
    [kind |-> "object", token |-> tok, expiry |-> isoformat(expiry)]

\* json.load raises on an empty or malformed text.
json_load_raises(text) == text.kind \in {"empty", "garbage"}

\* ------------------------------------------------------------- cache file
NoFile == [exists |-> FALSE, mode |-> {}, text |-> [kind |-> "empty"]]

HasKey(text, k) == text.kind = "object" /\ k \in DOMAIN text

\* A complete cache record: an object with a token and a parsable expiry.
IsRecord(f) ==
    /\ f.exists
    /\ HasKey(f.text, "token")
    /\ HasKey(f.text, "expiry")
    /\ IsIsoText(f.text.expiry)

\* _load_cached_token: [hit |-> FALSE] is the None result, else the loaded dict.
\* Every exception inside the try block (open of an unreadable file, json.load,
\* data['expiry'] on a non-dict or without the key, fromisoformat) gives None.
_load_cached_token(f, t) ==
    IF ~f.exists THEN [hit |-> FALSE]
    ELSE IF "owner" \notin f.mode THEN [hit |-> FALSE]
    ELSE IF json_load_raises(f.text) THEN [hit |-> FALSE]
    ELSE IF ~HasKey(f.text, "expiry") THEN [hit |-> FALSE]
    ELSE IF ~IsIsoText(f.text.expiry) THEN [hit |-> FALSE]
    ELSE IF t >= fromisoformat(f.text.expiry) THEN [hit |-> FALSE]
    ELSE [hit |-> TRUE, data |-> f.text]

\* ---------------------------------------------------------------- results
NoResult == [outcome |-> "none"]
Returned(v) == [outcome |-> "ok", value |-> v]
Raised(type, msg) == [outcome |-> "raise", type |-> type, msg |-> msg]

\* What a call has done so far: login requests sent, cache reads, _save_token
\* invocations, whether _save_token printed its warning, and API requests
\* sent.
NoStats == [net |-> 0, reads |-> 0, saves |-> 0, warned |-> FALSE, api |-> 0]

NoResponse == [kind |-> "none"]

\* The call that returned in the step leading to the current state: its
\* instance, operation, result, what it did, and the login response that made
\* it raise.  NoCall when that step returned from no call.
NoCall == [inst |-> "none", op |-> "none", ret |-> NoResult, stats |-> NoStats,
           resp |-> NoResponse]

\* The API request sent in the step leading to the current state: its
\* instance and the token of its Authorization header.  NoRequest when that
\* step sent none.
NoRequest == [inst |-> "none"]

\* ------------------------------------------------------------------- Init
\* __init__ of every instance; no cache directory or file yet.
Init ==
    /\ now = 0
    /\ token = [i \in Inst |-> None]
    /\ token_expiry = [i \in Inst |-> None]
    /\ pc = [i \in Inst |-> "idle"]
    /\ op = [i \in Inst |-> "none"]
    /\ stats = [i \in Inst |-> NoStats]
    /\ last = NoCall
    /\ sent = NoRequest
    /\ dirExists = FALSE
    /\ file = NoFile
    /\ issued = <<>>

\* ------------------------------------------------------- remote authority
\* What requests.post / raise_for_status / response.json can produce for the
\* login request: no response at all, a non-2xx status, a 2xx body that is not
\* JSON, a JSON body that is not an object, or a JSON object with any of the
\* fields success, token, errorMessage.
ErrorResponses ==
    { [kind |-> "ConnectionError"],
      [kind |-> "HTTPError"],
      [kind |-> "badjson"],
      [kind |-> "array"],
      [kind |-> "object"],
      [kind |-> "object", success |-> FALSE],
      [kind |-> "object", success |-> FALSE, errorMessage |-> "bad key"],
      [kind |-> "object", success |-> TRUE] }

SuccessResponse(tok) == [kind |-> "object", success |-> TRUE, token |-> tok]

\* str(e) of the RequestException that requests raises for the response.
TransportText(r) ==
    CASE r.kind = "ConnectionError" -> "Connection refused"
      [] r.kind = "HTTPError" -> "401 Client Error"
      [] OTHER -> "Expecting value"

\* data.get('success') is truthy.
Success(r) == "success" \in DOMAIN r /\ r.success

\* A message that ignores the response.
error_msg_unknown(r) == "Unknown error"

\* data.get('errorMessage', 'Unknown error')
error_msg(r) ==
    IF "errorMessage" \in DOMAIN r THEN r.errorMessage ELSE "Unknown error"

\* The exception login() raises for response r, NoResult when it raises none.
\* requests >= 2.31 raises requests.exceptions.JSONDecodeError, a
\* RequestException, for an undecodable body.
LoginRaises(r) ==
    CASE r.kind \in {"ConnectionError", "HTTPError", "badjson"} ->
            Raised("Exception", <<"Authentication request failed: ", TransportText(r)>>)
      [] r.kind = "array" -> Raised("AttributeError", <<"get">>)
      [] r.kind = "object" /\ ~Success(r) ->
            Raised("Exception", <<"Authentication failed: ", error_msg(r)>>)
      [] r.kind = "object" /\ Success(r) /\ "token" \notin DOMAIN r ->
            Raised("KeyError", <<"token">>)
      [] OTHER -> NoResult

\* ---------------------------------------------------------------- actions
\* A caller invokes login(), get_token() or an endpoint operation on
\* instance i.
Call(i, o) ==
    /\ pc[i] = "idle"
    /\ pc' = [pc EXCEPT ![i] = o]
    /\ op' = [op EXCEPT ![i] = o]
    /\ last' = NoCall
    /\ sent' = NoRequest
    /\ UNCHANGED <<now, token, token_expiry, stats, dirExists, file, issued>>

\* A login() that sends its request once more after a failed one.
Return_retry(i, r, st, resp) ==
    /\ IF r.outcome = "raise" /\ resp # NoResponse /\ st.net < 2
       THEN /\ pc' = [pc EXCEPT ![i] = "post"]
            /\ stats' = [stats EXCEPT ![i] = st]
            /\ last' = NoCall
            /\ UNCHANGED op
       ELSE IF op[i] = "request" /\ r.outcome = "ok"
       THEN /\ pc' = [pc EXCEPT ![i] = "send"]
            /\ stats' = [stats EXCEPT ![i] = st]
            /\ last' = NoCall
            /\ UNCHANGED op
       ELSE /\ pc' = [pc EXCEPT ![i] = "idle"]
            /\ op' = [op EXCEPT ![i] = "none"]
            /\ stats' = [stats EXCEPT ![i] = NoStats]
            /\ last' = [inst |-> i, op |-> op[i], ret |-> r, stats |-> st,
                        resp |-> resp]
    /\ sent' = NoRequest

\* The call of instance i ends with result r, having done st.  Inside
\* _make_request the value login() returns is dropped and the request
\* follows; an exception of login() ends _make_request as well.
Return(i, r, st, resp) ==
    /\ IF op[i] = "request" /\ r.outcome = "ok"
       THEN /\ pc' = [pc EXCEPT ![i] = "send"]
            /\ stats' = [stats EXCEPT ![i] = st]
            /\ last' = NoCall
            /\ UNCHANGED op
       ELSE /\ pc' = [pc EXCEPT ![i] = "idle"]
            /\ op' = [op EXCEPT ![i] = "none"]
            /\ stats' = [stats EXCEPT ![i] = NoStats]
            /\ last' = [inst |-> i, op |-> op[i], ret |-> r, stats |-> st,
                        resp |-> resp]
    /\ sent' = NoRequest

\* The test with > for >=: a token is kept at the instant it expires.
NeedsLogin_strict(tok, expiry, t) ==
    tok = None \/ (expiry # None /\ t > expiry)

\* The test that never trusts the held token.
NeedsLogin_always(tok, expiry, t) == TRUE

\* The test of get_token:
\* not self.token or (self.token_expiry and datetime.now() >= self.token_expiry)
NeedsLogin(tok, expiry, t) ==
    tok = None \/ (expiry # None /\ t >= expiry)

\* get_token(): return the held token, or enter login().
GetToken(i) ==
    /\ pc[i] = "get_token"
    /\ IF NeedsLogin(token[i], token_expiry[i], now)
       THEN /\ pc' = [pc EXCEPT ![i] = "login"]
            /\ last' = NoCall
            /\ sent' = NoRequest
            /\ UNCHANGED <<op, stats>>
       ELSE Return(i, Returned(token[i]), stats[i], NoResponse)
    /\ UNCHANGED <<now, token, token_expiry, dirExists, file, issued>>

\* An endpoint operation without the token check.
MakeRequest_unchecked(i) ==
    /\ pc[i] = "request"
    /\ pc' = [pc EXCEPT ![i] = "send"]
    /\ last' = NoCall
    /\ sent' = NoRequest
    /\ UNCHANGED <<now, token, token_expiry, op, stats, dirExists, file, issued>>

\* _make_request, the token check: call login() when there is no token or
\* the held one has expired, else go on to the request.
MakeRequest(i) ==
    /\ pc[i] = "request"
    /\ pc' = [pc EXCEPT ![i] = IF NeedsLogin(token[i], token_expiry[i], now)
                                THEN "login" ELSE "send"]
    /\ last' = NoCall
    /\ sent' = NoRequest
    /\ UNCHANGED <<now, token, token_expiry, op, stats, dirExists, file, issued>>

\* What session.request / raise_for_status / response.json can produce for
\* an API request: a 2xx JSON body, a 2xx body that is not JSON, a non-2xx
\* status, no response at all.
ApiResponses ==
    { [kind |-> "object"],
      [kind |-> "badjson"],
      [kind |-> "HTTPError"],
      [kind |-> "ConnectionError"] }

\* _make_request has no try block: the parsed body is returned as it is and
\* an exception of requests leaves the call as it is.
ApiResult(a) ==
    IF a.kind = "object" THEN Returned(a) ELSE Raised(a.kind, <<>>)

\* _make_request, the request: the Authorization header is set from
\* self.token, one request is sent, and its outcome ends the call.
Send(i) ==
    /\ pc[i] = "send"
    /\ \E a \in ApiResponses :
         /\ sent' = [inst |-> i, bearer |-> token[i]]
         /\ pc' = [pc EXCEPT ![i] = "idle"]
         /\ op' = [op EXCEPT ![i] = "none"]
         /\ stats' = [stats EXCEPT ![i] = NoStats]
         /\ last' = [inst |-> i, op |-> op[i], ret |-> ApiResult(a),
                     stats |-> [stats[i] EXCEPT !.api = @ + 1],
                     resp |-> NoResponse]
    /\ UNCHANGED <<now, token, token_expiry, dirExists, file, issued>>

\* login(), the cache read: adopt a loaded record and return its token, or go
\* on to the remote login.  cached['token'] is read outside any try block.
LoginLoad(i) ==
    /\ pc[i] = "login"
    /\ LET cached == _load_cached_token(file, now)
           st == [stats[i] EXCEPT !.reads = @ + 1]
       IN
       IF cached.hit
       THEN IF "token" \in DOMAIN cached.data
            THEN /\ token' = [token EXCEPT ![i] = cached.data.token]
                 /\ token_expiry' = [token_expiry EXCEPT ![i] = fromisoformat(cached.data.expiry)]
                 /\ Return(i, Returned(cached.data.token), st, NoResponse)
            ELSE /\ Return(i, Raised("KeyError", <<"token">>), st, NoResponse)
                 /\ UNCHANGED <<token, token_expiry>>
       ELSE /\ pc' = [pc EXCEPT ![i] = "post"]
            /\ stats' = [stats EXCEPT ![i] = st]
            /\ last' = NoCall
            /\ sent' = NoRequest
            /\ UNCHANGED <<token, token_expiry, op>>
    /\ UNCHANGED <<now, dirExists, file, issued>>

\* The credential the k-th token was issued for: the userName and apiKey of
\* the login request that obtained it.
IssuedFor(k) == Credential(issued[k].by)

\* A remote login that forgets the held token when its request fails.
LoginPost_clears(i) ==
    /\ pc[i] = "post"
    /\ \E r \in ErrorResponses \cup {SuccessResponse(Len(issued) + 1)} :
         IF LoginRaises(r) # NoResult
         THEN /\ Return(i, LoginRaises(r), [stats[i] EXCEPT !.net = @ + 1], r)
              /\ token' = [token EXCEPT ![i] = None]
              /\ token_expiry' = [token_expiry EXCEPT ![i] = None]
              /\ UNCHANGED issued
         ELSE /\ Len(issued) < MaxTokens
              /\ token' = [token EXCEPT ![i] = r.token]
              /\ token_expiry' = [token_expiry EXCEPT ![i] = now + TokenLifetimeHours]
              /\ issued' = Append(issued, [by |-> i, expiry |-> now + TokenLifetimeHours])
              /\ pc' = [pc EXCEPT ![i] = "mkdir"]
              /\ stats' = [stats EXCEPT ![i].net = @ + 1, ![i].saves = @ + 1]
              /\ last' = NoCall
              /\ sent' = NoRequest
              /\ UNCHANGED op
    /\ UNCHANGED <<now, dirExists, file>>

\* login(), the remote login: one POST; a failure raises, a success sets the
\* token and its expiry and enters _save_token.
LoginPost(i) ==
    /\ pc[i] = "post"
    /\ \E r \in ErrorResponses \cup {SuccessResponse(Len(issued) + 1)} :
         IF LoginRaises(r) # NoResult
         THEN /\ Return(i, LoginRaises(r), [stats[i] EXCEPT !.net = @ + 1], r)
              /\ UNCHANGED <<token, token_expiry, issued>>
         ELSE /\ Len(issued) < MaxTokens
              /\ token' = [token EXCEPT ![i] = r.token]
              /\ token_expiry' = [token_expiry EXCEPT ![i] = now + TokenLifetimeHours]
              /\ issued' = Append(issued, [by |-> i, expiry |-> now + TokenLifetimeHours])
              /\ pc' = [pc EXCEPT ![i] = "mkdir"]
              /\ stats' = [stats EXCEPT ![i].net = @ + 1, ![i].saves = @ + 1]
              /\ last' = NoCall
              /\ sent' = NoRequest
              /\ UNCHANGED op
    /\ UNCHANGED <<now, dirExists, file>>

\* A _save_token that lets its exception out of login().
SaveFailed_raises(i) ==
    Return(i, Raised("OSError", <<"save">>), stats[i], NoResponse)

\* The except branch of _save_token prints a warning; login() then returns
\* self.token.
SaveFailed(i) ==
    Return(i, Returned(token[i]), [stats[i] EXCEPT !.warned = TRUE], NoResponse)

\* _save_token: self.token_file.parent.mkdir(parents=True, exist_ok=True)
SaveMkdir(i) ==
    /\ pc[i] = "mkdir"
    /\ \/ /\ dirExists' = TRUE
          /\ pc' = [pc EXCEPT ![i] = "open"]
          /\ last' = NoCall
          /\ sent' = NoRequest
          /\ UNCHANGED <<op, stats>>
       \/ /\ SaveFailed(i)
          /\ UNCHANGED dirExists
    /\ UNCHANGED <<now, token, token_expiry, file, issued>>

\* _save_token: open(self.token_file, 'w') truncates an existing file, keeping
\* its mode, or creates one with the mode the umask leaves.
SaveOpen(i) ==
    /\ pc[i] = "open"
    /\ \/ /\ \E um \in Umasks :
               file' = [exists |-> TRUE,
                        mode |-> IF file.exists THEN file.mode ELSE CreateMode \ um,
                        text |-> [kind |-> "empty"]]
          /\ pc' = [pc EXCEPT ![i] = "dump"]
          /\ last' = NoCall
          /\ sent' = NoRequest
          /\ UNCHANGED <<op, stats>>
       \/ /\ SaveFailed(i)
          /\ UNCHANGED file
    /\ UNCHANGED <<now, token, token_expiry, dirExists, issued>>

\* What the file holds after this writer's bytes go to offset 0 of a file
\* another writer filled since this writer's truncation: this writer's text
\* when it is at least as long, else its text followed by the other's tail.
Overwritten(text, mine) ==
    IF text.kind = "empty" THEN {mine} ELSE {mine, [kind |-> "garbage"]}

\* What a write that fails part way leaves: nothing new, or a partial text.
PartlyWritten(text) == {text, [kind |-> "garbage"]}

\* _save_token: json.dump(data, f) and the close of the with block.  A file
\* unlinked since the open stays absent.
SaveDump(i) ==
    /\ pc[i] = "dump"
    /\ \/ /\ IF file.exists
             THEN \E t \in Overwritten(file.text, json_dump(token[i], token_expiry[i])) :
                     file' = [file EXCEPT !.text = t]
             ELSE UNCHANGED file
          /\ pc' = [pc EXCEPT ![i] = "chmod"]
          /\ last' = NoCall
          /\ sent' = NoRequest
          /\ UNCHANGED <<op, stats>>
       \/ /\ IF file.exists
             THEN \E t \in PartlyWritten(file.text) : file' = [file EXCEPT !.text = t]
             ELSE UNCHANGED file
          /\ SaveFailed(i)
    /\ UNCHANGED <<now, token, token_expiry, dirExists, issued>>

\* _save_token: os.chmod(self.token_file, 0o600), then login() returns.
SaveChmod(i) ==
    /\ pc[i] = "chmod"
    /\ \/ /\ file.exists
          /\ file' = [file EXCEPT !.mode = OwnerOnly]
          /\ Return(i, Returned(token[i]), stats[i], NoResponse)
       \/ /\ SaveFailed(i)
          /\ UNCHANGED file
    /\ UNCHANGED <<now, token, token_expiry, dirExists, issued>>

\* A new process constructs a fresh instance: __init__.
Construct(i) ==
    /\ pc[i] = "idle"
    /\ token[i] # None
    /\ token' = [token EXCEPT ![i] = None]
    /\ token_expiry' = [token_expiry EXCEPT ![i] = None]
    /\ last' = NoCall
    /\ sent' = NoRequest
    /\ UNCHANGED <<now, pc, op, stats, dirExists, file, issued>>

\* The wall clock advances between calls.
Tick ==
    /\ \A i \in Inst : pc[i] = "idle"
    /\ now + TickStep <= MaxTime
    /\ now' = now + TickStep
    /\ last' = NoCall
    /\ sent' = NoRequest
    /\ UNCHANGED <<token, token_expiry, pc, op, stats, dirExists, file, issued>>

\* The defective states something outside the program can leave an existing
\* cache file in: deleted, unreadable, not JSON, JSON but no object, an object
\* without its token or its expiry, an expiry that is no ISO text.
Defects(f) ==
    { NoFile,
      [f EXCEPT !.mode = {}],
      [f EXCEPT !.text = [kind |-> "garbage"]],
      [f EXCEPT !.text = [kind |-> "array"]] }
    \cup (IF HasKey(f.text, "token") /\ HasKey(f.text, "expiry")
          THEN { [f EXCEPT !.text = [kind |-> "object", expiry |-> f.text.expiry]],
                 [f EXCEPT !.text = [kind |-> "object", token |-> f.text.token]],
                 [f EXCEPT !.text = [kind |-> "object", token |-> f.text.token, expiry |-> <<>>]] }
          ELSE {})

Corrupt ==
    /\ file.exists
    /\ \E d \in Defects(file) : file' = d
    /\ last' = NoCall
    /\ sent' = NoRequest
    /\ UNCHANGED <<now, token, token_expiry, pc, op, stats, dirExists, issued>>

\* One call runs at a time.
SeqCall(i, o) ==
    /\ \A j \in Inst : pc[j] = "idle"
    /\ Call(i, o)

\* The cache file is damaged from outside between calls.
SeqCorrupt ==
    /\ \A j \in Inst : pc[j] = "idle"
    /\ Corrupt

\* The instances run their calls one after the other, and the cache file may
\* be damaged from outside between two calls.
Next ==
    \/ \E i \in Inst : SeqCall(i, "login")
    \/ \E i \in Inst : SeqCall(i, "get_token")
    \/ \E i \in Inst : GetToken(i)
    \/ \E i \in Inst : LoginLoad(i)
    \/ \E i \in Inst : LoginPost(i)
    \/ \E i \in Inst : SaveMkdir(i)
    \/ \E i \in Inst : SaveOpen(i)
    \/ \E i \in Inst : SaveDump(i)
    \/ \E i \in Inst : SaveChmod(i)
    \/ \E i \in Inst : Construct(i)
    \/ Tick
    \/ SeqCorrupt

Spec == Init /\ [][Next]_vars

\* The instances are processes whose login() and get_token() calls interleave
\* step by step on the shared cache file; nothing else touches the file.
NextConc ==
    \/ \E i \in Inst : Call(i, "login")
    \/ \E i \in Inst : Call(i, "get_token")
    \/ \E i \in Inst : GetToken(i)
    \/ \E i \in Inst : LoginLoad(i)
    \/ \E i \in Inst : LoginPost(i)
    \/ \E i \in Inst : SaveMkdir(i)
    \/ \E i \in Inst : SaveOpen(i)
    \/ \E i \in Inst : SaveDump(i)
    \/ \E i \in Inst : SaveChmod(i)
    \/ \E i \in Inst : Construct(i)
    \/ Tick

SpecConc == Init /\ [][NextConc]_vars

\* The instances run login(), get_token() and endpoint operations one after
\* the other, and the cache file may be damaged from outside between two
\* calls; every instance lives as long as the run.
NextApi ==
    \/ \E i \in Inst : SeqCall(i, "login")
    \/ \E i \in Inst : SeqCall(i, "get_token")
    \/ \E i \in Inst : SeqCall(i, "request")
    \/ \E i \in Inst : GetToken(i)
    \/ \E i \in Inst : MakeRequest(i)
    \/ \E i \in Inst : LoginLoad(i)
    \/ \E i \in Inst : LoginPost(i)
    \/ \E i \in Inst : SaveMkdir(i)
    \/ \E i \in Inst : SaveOpen(i)
    \/ \E i \in Inst : SaveDump(i)
    \/ \E i \in Inst : SaveChmod(i)
    \/ \E i \in Inst : Send(i)
    \/ Tick
    \/ SeqCorrupt

SpecApi == Init /\ [][NextApi]_vars

\* ------------------------------------------------------------------ claims
\* The result of a call that has just returned a value on instance i.
JustReturned(i, o) ==
    last.inst = i /\ last.op = o /\ last.ret.outcome = "ok"

\* C1: get_token() never returns an expired token.  A token it returns is
\* the in-memory token and its expiry is strictly after the current time; and
\* when the in-memory expiry is at or before the current time (equal
\* included) get_token() does not return the held token but enters login().
C1_ReturnedTokenValid ==
    \A i \in Inst :
        JustReturned(i, "get_token") =>
            /\ last.ret.value = token[i]
            /\ token[i] # None
            /\ token_expiry[i] # None
            /\ now < token_expiry[i]

C1_ExpiredGoesToLogin ==
    \A i \in Inst :
        (/\ pc[i] = "get_token"
         /\ pc'[i] # "get_token"
         /\ token_expiry[i] # None
         /\ now >= token_expiry[i])
        => pc'[i] = "login" /\ last' = NoCall

C1_NeverReturnsExpired ==
    [](C1_ReturnedTokenValid) /\ [][C1_ExpiredGoesToLogin]_vars

\* C1 witness: get_token() has entered login() with a held token whose expiry
\* equals the current time.
C1_Witness ==
    \E i \in Inst :
        /\ op[i] = "get_token"
        /\ pc[i] = "login"
        /\ token[i] # None
        /\ token_expiry[i] = now

\* C2: with an in-memory token whose expiry is in the future, get_token()
\* returns that token in one step with no login request, no cache read and no
\* cache write, and leaves the in-memory token and expiry, the cache directory
\* and the cache file as they were (so a second such call returns the same).
C2_FastPath ==
    \A i \in Inst :
        (/\ pc[i] = "get_token"
         /\ pc'[i] # "get_token"
         /\ token[i] # None
         /\ token_expiry[i] # None
         /\ now < token_expiry[i])
        => /\ last' = [inst |-> i, op |-> "get_token", ret |-> Returned(token[i]),
                       stats |-> NoStats, resp |-> NoResponse]
           /\ pc'[i] = "idle"
           /\ token'[i] = token[i]
           /\ token_expiry'[i] = token_expiry[i]
           /\ file' = file
           /\ dirExists' = dirExists
           /\ issued' = issued

C2_ValidTokenReused == [][C2_FastPath]_vars

\* C2 witness: get_token() has just returned the held token, at a time after
\* its issue and before its expiry, having done no I/O.
C2_Witness ==
    \E i \in Inst :
        /\ JustReturned(i, "get_token")
        /\ last.stats = NoStats
        /\ last.ret.value = token[i]
        /\ now > 0
        /\ now < token_expiry[i]

\* C3: when the cache file holds the record one login persisted (token k with
\* the expiry e that login computed) and the current time is strictly before
\* e, the cache read of login() returns k, sets the in-memory token to k and
\* the in-memory expiry to e, and sends no login request.
C3_LoadStep ==
    \A i \in Inst : \A k \in 1..Len(issued) :
        (/\ pc[i] = "login"
         /\ pc'[i] # "login"
         /\ file.exists
         /\ "owner" \in file.mode
         /\ file.text = json_dump(k, issued[k].expiry)
         /\ now < issued[k].expiry)
        => /\ IF op[i] = "request"
              THEN pc'[i] = "send" /\ stats'[i] = [NoStats EXCEPT !.reads = 1]
              ELSE last' = [inst |-> i, op |-> op[i], ret |-> Returned(k),
                            stats |-> [NoStats EXCEPT !.reads = 1],
                            resp |-> NoResponse]
           /\ token'[i] = k
           /\ token_expiry'[i] = issued[k].expiry
           /\ issued' = issued
           /\ file' = file

C3_CacheRoundTrip == [][C3_LoadStep]_vars

\* C3 witness: login() has just returned, without a request, a token that
\* another instance obtained and persisted at an earlier time.
C3_Witness ==
    \E i \in Inst :
        /\ JustReturned(i, "login")
        /\ last.stats.net = 0
        /\ last.stats.reads = 1
        /\ token[i] \in 1..Len(issued)
        /\ last.ret.value = token[i]
        /\ issued[token[i]].by # i
        /\ token_expiry[i] = issued[token[i]].expiry
        /\ token_expiry[i] # now + TokenLifetimeHours

\* The defective states of the cache file: absent, unreadable, no JSON, JSON
\* but no object, no expiry, no token, an expiry that is no ISO text.
Defective(f) ==
    \/ ~f.exists
    \/ "owner" \notin f.mode
    \/ f.text.kind \in {"empty", "garbage", "array"}
    \/ ~HasKey(f.text, "expiry")
    \/ ~HasKey(f.text, "token")
    \/ ~IsIsoText(f.text.expiry)

\* C4: with a defective cache file the cache read of login() never raises: it
\* goes on to the remote login, as it does with no cache file, and changes
\* nothing.
C4_LoadStep ==
    \A i \in Inst :
        (pc[i] = "login" /\ pc'[i] # "login" /\ Defective(file))
        => /\ pc'[i] = "post"
           /\ last' = NoCall
           /\ sent' = NoRequest
           /\ token'[i] = token[i]
           /\ token_expiry'[i] = token_expiry[i]

C4_DefectIsCacheMiss == [][C4_LoadStep]_vars

\* The call on instance i has just ended on the login response last.resp.
AfterResponse(i) == last.inst = i /\ last.resp # NoResponse

Rejection(r) == r.kind = "object" /\ ~Success(r)

Transport(r) == r.kind \in {"ConnectionError", "HTTPError"}

\* C5: a login response with success=false and an errorMessage m makes login()
\* (and get_token()) raise an exception whose message contains m; no token is
\* returned.
C5_RejectionPropagates ==
    \A i \in Inst :
        (AfterResponse(i) /\ Rejection(last.resp) /\ "errorMessage" \in DOMAIN last.resp)
        => /\ last.ret.outcome = "raise"
           /\ last.ret.type = "Exception"
           /\ \E n \in 1..Len(last.ret.msg) : last.ret.msg[n] = last.resp.errorMessage
           /\ last.stats.net = 1
           /\ last.stats.saves = 0

\* C5 witness: get_token() has just raised on the response
\* {success: false, errorMessage: "bad key"}.
C5_Witness ==
    \E i \in Inst :
        /\ AfterResponse(i)
        /\ last.op = "get_token"
        /\ last.resp = [kind |-> "object", success |-> FALSE, errorMessage |-> "bad key"]
        /\ last.ret = Raised("Exception", <<"Authentication failed: ", "bad key">>)

\* The exception types login() uses for a rejection and for a transport failure.
RejectedKind == LoginRaises([kind |-> "object", success |-> FALSE]).type

TransportKind == LoginRaises([kind |-> "ConnectionError"]).type

\* C6: every failure of the remote login raises an error whose kind tells a
\* rejection (success=false) from a transport failure: a rejection never has
\* the kind of a transport failure nor the reverse, and no failure (a success
\* response without a token and an undecodable body included) has a third kind.
C6_TypedErrors ==
    \A i \in Inst :
        AfterResponse(i)
        => /\ last.ret.outcome = "raise"
           /\ last.ret.type \in {RejectedKind, TransportKind}
           /\ Rejection(last.resp) => last.ret.type # TransportKind
           /\ Transport(last.resp) => last.ret.type # RejectedKind

\* The steps of _save_token.
SaveSteps == {"mkdir", "open", "dump", "chmod"}

\* C7: a failure inside _save_token does not fail the login.  Each step of
\* _save_token either goes on or ends login() returning the in-memory token;
\* a login() that ends with the warning has returned the token just issued to
\* it, with the in-memory expiry at the login time + 24 hours; and get_token()
\* before that expiry returns an in-memory token that is not on disk without
\* any request or cache access.
C7_WarnedLoginReturnsToken ==
    \A i \in Inst :
        (last.inst = i /\ last.op \in {"login", "get_token"} /\ last.stats.warned)
        => /\ last.ret = Returned(token[i])
           /\ token[i] = Len(issued)
           /\ issued[token[i]].by = i
           /\ token_expiry[i] = now + TokenLifetimeHours
           /\ last.stats.net = 1

C7_SaveStep ==
    \A i \in Inst :
        (pc[i] \in SaveSteps /\ pc'[i] # pc[i])
        => /\ pc'[i] \in SaveSteps \cup {"idle", "send"}
           /\ pc'[i] = "send" <=> (op[i] = "request" /\ pc'[i] \notin SaveSteps)
           /\ token'[i] = token[i]
           /\ token_expiry'[i] = token_expiry[i]
           /\ pc'[i] = "idle" => last'.inst = i /\ last'.ret = Returned(token[i])

C7_UnsavedTokenReused ==
    \A i \in Inst :
        (/\ pc[i] = "get_token"
         /\ pc'[i] # "get_token"
         /\ token[i] # None
         /\ now < token_expiry[i]
         /\ ~(file.exists /\ HasKey(file.text, "token") /\ file.text.token = token[i]))
        => /\ last'.ret = Returned(token[i])
           /\ last'.stats.net = 0
           /\ last'.stats.reads = 0

C7_PersistenceFailureNonFatal ==
    /\ [](C7_WarnedLoginReturnsToken)
    /\ [][C7_SaveStep /\ C7_UnsavedTokenReused]_vars

\* C7 witness: get_token() has just returned the held token without any
\* request although the cache directory could never be created.
C7_Witness ==
    \E i \in Inst :
        /\ JustReturned(i, "get_token")
        /\ last.stats = NoStats
        /\ last.ret.value = token[i]
        /\ ~dirExists
        /\ ~file.exists
        /\ now > 0

\* C8: a remote login that succeeds and whose _save_token succeeds returns
\* the token the authority issued, leaves the in-memory expiry at the login
\* time + 24 hours, and leaves on disk exactly the record of the in-memory
\* token and expiry, restricted to the owner, whatever the file held before.
C8_LoginPersists ==
    \A i \in Inst :
        (/\ last.inst = i
         /\ last.op \in {"login", "get_token"}
         /\ last.ret.outcome = "ok"
         /\ last.stats.net = 1
         /\ ~last.stats.warned)
        => /\ last.ret.value = token[i]
           /\ token[i] = Len(issued)
           /\ issued[token[i]].by = i
           /\ token_expiry[i] = now + TokenLifetimeHours
           /\ file.exists
           /\ file.mode = OwnerOnly
           /\ file.text = [kind |-> "object", token |-> token[i],
                           expiry |-> isoformat(token_expiry[i])]
           /\ fromisoformat(file.text.expiry) = token_expiry[i]

\* C8 witness: login() has just returned the second token issued, saved, at a
\* time when the first token's record had expired.
C8_Witness ==
    \E i \in Inst :
        /\ JustReturned(i, "login")
        /\ last.stats.net = 1
        /\ ~last.stats.warned
        /\ token[i] = 2
        /\ now >= issued[1].expiry
        /\ IsRecord(file)
        /\ file.text.token = 2

\* C9 as claimed: a record present in the cache file is the one of the most
\* recently issued token.  Stated for the states in which no call is running,
\* where every writer has finished.
C9_RecordIsLatest ==
    ((\A i \in Inst : pc[i] = "idle") /\ IsRecord(file)) =>
        /\ file.text.token = Len(issued)
        /\ fromisoformat(file.text.expiry) = issued[Len(issued)].expiry

\* C9 as amended: a record present in the cache file is the token of one
\* login together with the expiry that same login computed, never one
\* writer's token with another's expiry; it need not be the most recently
\* issued token.
C9_RecordIsOneLogin ==
    IsRecord(file) =>
        /\ file.text.token \in 1..Len(issued)
        /\ fromisoformat(file.text.expiry) = issued[file.text.token].expiry

\* C9 witness: the writer of the earlier-issued token has just finished its
\* save after the other instance got a later token, and its record is the one
\* on disk.
C9_Witness ==
    /\ Len(issued) = 2
    /\ IsRecord(file)
    /\ file.text.token = 1
    /\ last.inst = issued[1].by
    /\ last.ret = Returned(1)
    /\ ~last.stats.warned
    /\ last.stats.saves = 1
    /\ issued[2].by # issued[1].by
    /\ token[issued[2].by] = 2

\* C10: a cache file that holds a token is never readable by anyone but its
\* owner.
C10_TokenFileOwnerOnly ==
    (file.exists /\ HasKey(file.text, "token")) => file.mode \subseteq OwnerOnly

\* C11: the token lifecycle has no terminal state: a get_token() call made
\* while the remote authority accepts the credential returns a valid token.
\* A get_token() call therefore ends with an error only when the remote login
\* it made was answered with a failure: no state of the object or of the cache
\* file makes get_token() fail before the authority is asked.
C11_GetTokenFailsOnlyRemotely ==
    \A i \in Inst :
        (last.inst = i /\ last.op = "get_token" /\ last.ret.outcome = "raise")
            => /\ last.resp # NoResponse
               /\ last.stats.net > 0

\* C12: every endpoint operation goes through the token check before its
\* HTTP request.  An instance is about to send an API request only with an
\* in-memory token whose expiry is strictly after the current time; the
\* request's bearer token is the in-memory token; the request is sent only
\* from the position the check or a login() that returned leads to, the check
\* leading there only when it finds the held token valid; and when login()
\* raises inside the operation, the operation ends with that exception and no
\* API request.
C12_ValidAtSend ==
    \A i \in Inst :
        /\ pc[i] = "send" =>
              /\ op[i] = "request"
              /\ token[i] # None
              /\ token_expiry[i] # None
              /\ now < token_expiry[i]
        /\ sent.inst = i =>
              /\ sent.bearer = token[i]
              /\ token[i] # None
              /\ now < token_expiry[i]
              /\ last.inst = i /\ last.op = "request" /\ last.stats.api = 1

C12_RequestStep ==
    \A i \in Inst :
        /\ sent'.inst = i => pc[i] = "send" /\ sent'.bearer = token[i]
        /\ (pc'[i] = "send" /\ pc[i] # "send") =>
              \/ /\ pc[i] = "request"
                 /\ token[i] # None
                 /\ now < token_expiry[i]
              \/ /\ pc[i] \in {"login"} \cup SaveSteps
                 /\ op[i] = "request"
                 /\ stats'[i].reads = 1
        /\ (op[i] = "request" /\ pc[i] # "send" /\ pc'[i] = "idle") =>
              /\ pc[i] \in {"login", "post"}
              /\ last'.inst = i
              /\ last'.ret.outcome = "raise"
              /\ last'.stats.api = 0
              /\ sent' = NoRequest

C12_TokenCheckedBeforeRequest ==
    [](C12_ValidAtSend) /\ [][C12_RequestStep]_vars

\* C12 witness: an API request has just been sent with the second token
\* issued, which the operation's own login() obtained after the instance's
\* first token had expired.
C12_Witness ==
    \E i \in Inst :
        /\ sent.inst = i
        /\ sent.bearer = 2
        /\ last.stats.net = 1
        /\ issued[1].by = i
        /\ issued[2].by = i
        /\ now >= issued[1].expiry

\* C13: no retries.  Within one call the cache is read at most once, at most
\* one login request and at most one API request are sent and _save_token
\* runs at most once; a call never goes back to a position it has left, so
\* get_token() and an endpoint operation enter login() at most once; a login
\* request that fails ends the call with an exception in the same step, after
\* that one request and before any API request; and the API request ends the
\* operation whatever its outcome, a failure with the exception of requests.
AtMostOnce(st) ==
    st.reads <= 1 /\ st.net <= 1 /\ st.saves <= 1 /\ st.api <= 1

Position(p) ==
    CASE p \in {"get_token", "request"} -> 0
      [] p = "login" -> 1
      [] p = "post" -> 2
      [] p = "mkdir" -> 3
      [] p = "open" -> 4
      [] p = "dump" -> 5
      [] p = "chmod" -> 6
      [] p = "send" -> 7
      [] OTHER -> 8

C13_CountsAtMostOne ==
    /\ \A i \in Inst : AtMostOnce(stats[i])
    /\ AtMostOnce(last.stats)
    /\ last.resp # NoResponse => last.stats.net = 1 /\ last.stats.api = 0
    /\ sent # NoRequest => last.stats.api = 1

C13_CallStep ==
    \A i \in Inst :
        /\ (pc[i] # "idle" /\ pc'[i] # pc[i]) => Position(pc'[i]) > Position(pc[i])
        /\ (pc[i] = "post" /\ pc'[i] # "post") =>
              \/ pc'[i] = "mkdir" /\ Len(issued') = Len(issued) + 1
              \/ /\ pc'[i] = "idle"
                 /\ last'.inst = i
                 /\ last'.ret.outcome = "raise"
                 /\ last'.resp # NoResponse
                 /\ sent' = NoRequest
                 /\ issued' = issued
        /\ (pc[i] = "send" /\ pc'[i] # "send") =>
              /\ pc'[i] = "idle"
              /\ last'.inst = i
              /\ last'.stats.api = 1
              /\ last'.ret.outcome \in {"ok", "raise"}

C13_NoRetries ==
    [](C13_CountsAtMostOne) /\ [][C13_CallStep]_vars

\* C13 witness: an endpoint operation has just ended with an exception of its
\* API request, after one cache read, one login request and one API request.
C13_Witness ==
    \E i \in Inst :
        /\ last.inst = i
        /\ last.op = "request"
        /\ last.ret.outcome = "raise"
        /\ last.stats.reads = 1
        /\ last.stats.net = 1
        /\ last.stats.api = 1
        /\ sent.inst = i

\* C14: credential binding of returned tokens.  A token that login() or
\* get_token() returns to an instance, or that an instance attaches to an API
\* request, was issued for that instance's own credential, also when
\* instances constructed with different credentials share the cache file.
C14_TokenBoundToCredential ==
    \A i \in Inst :
        /\ (JustReturned(i, "login") \/ JustReturned(i, "get_token"))
              => IssuedFor(last.ret.value) = Credential(i)
        /\ sent.inst = i => IssuedFor(sent.bearer) = Credential(i)

\* C15: a failed remote login changes nothing.  A call ends with an exception
\* of login() only from the cache read or the remote login of login(); that
\* step, and every step of the call before it (the entry, the token check,
\* the cache read that found no usable record), leaves the in-memory token
\* and expiry of every instance, the cache directory and the cache file
\* (an expired or defective one included) as they were.  No other step comes
\* between the steps of a call.
Quiet ==
    /\ token' = token
    /\ token_expiry' = token_expiry
    /\ file' = file
    /\ dirExists' = dirExists

C15_FailingStep ==
    \A i \in Inst :
        /\ (pc[i] \notin {"idle", "send"} /\ pc'[i] = "idle"
                /\ last'.ret.outcome = "raise")
              => pc[i] \in {"login", "post"} /\ Quiet
        /\ (pc[i] \in {"idle", "get_token", "request", "login"}
                /\ pc'[i] \in {"get_token", "request", "login", "post"}
                /\ pc'[i] # pc[i])
              => Quiet
        /\ pc[i] # "idle" => \A j \in Inst \ {i} : pc[j] = "idle" /\ pc'[j] = "idle"
        /\ pc[i] # "idle" => now' = now

C15_FailedLoginChangesNothing == [][C15_FailingStep]_vars

\* C15 witness: get_token() has just ended with the exception of a failed
\* login request while the instance holds an expired token whose expired
\* record is still the content of the cache file.
C15_Witness ==
    \E i \in Inst :
        /\ last.inst = i
        /\ last.op = "get_token"
        /\ last.ret.outcome = "raise"
        /\ last.resp # NoResponse
        /\ token[i] # None
        /\ now >= token_expiry[i]
        /\ file.exists
        /\ file.text = json_dump(token[i], token_expiry[i])

====
